---- MODULE Spec2Model ----
(***************************************************************************)
(* Model of the game orchestration core of the AI assistant platform:      *)
(*   - the character store (services/ai_character_manager.py),             *)
(*   - werewolf role generation and the werewolf judge state machine       *)
(*     (services/werewolf_game.py),                                        *)
(*   - scenario generation and conclusion of the detective game and the    *)
(*     script-host game (services/detective_game.py,                       *)
(*     services/script_host_game.py),                                      *)
(*   - the message log and its readers (utils/database.py),                *)
(*   - the automation registry and its threads                             *)
(*     (services/game_automation.py).                                      *)
(* Each part has its own specification over the shared variables; the      *)
(* variables of the other parts stay at their initial values.              *)
(***************************************************************************)
EXTENDS Integers, Sequences, FiniteSets, TLC

VARIABLES
    characters,      \* AICharacterManager.characters: session -> id -> AICharacter
    db_characters,   \* table game_characters: session -> id -> row
    appended,        \* history: number of add_memory calls per character
    store_result,    \* the last store operation, its arguments and what it found
    roles,           \* the list built by _generate_roles
    shuffle_i,       \* position of random.shuffle's loop (0: not shuffling)
    roles_n,         \* the player count _generate_roles was called with (0: none)
    gen_kind,        \* which generator ran last: "none", "detective", "script"
    gen_reply,       \* the adapter's reply to the generation prompt
    gen_result,      \* the scenario the generator returned
    det_case,        \* detective session: game state 'case_data'
    det_truth,       \* game state 'truth' (JSON text, or None before creation)
    det_suspects,    \* names with a game state key suspect_<name>_id
    det_evidence,    \* game state 'evidence_list': size and discovered items
    det_discovered,  \* game state 'discovered_clues'
    det_interrogations, \* game state 'interrogations_count'
    det_messages,    \* number of messages of the session
    det_scores,      \* number of rows of game_scores, and the last row
    det_result,      \* what the last handler returned
    game_state,      \* werewolf session: the rows of game_state, by key
    game_messages,   \* werewolf session: speaker_type of each message, in order
    timers,          \* pending threading.Timer calls of _auto_voting
    ww_result,       \* the last werewolf handler, what it returned and did
    vote_requests,   \* player_vote requests in progress: position, day of the phase test
    msg_table,       \* table game_messages: the rows, in insertion order
    msg_clock,       \* the second CURRENT_TIMESTAMP gives
    msg_result,      \* the last reader, its arguments and the row ids it returned
    active_games,    \* GameAutomation.active_games for the session: the registered thread, 0 for none
    units,           \* the threads of _run_game_loop: position, phases entered, stop seen
    callers,         \* the calls of start_game_automation in progress
    host_result      \* the last handle_user_action of the script-host session

storeVars == <<characters, db_characters, appended, store_result>>
roleVars == <<roles, shuffle_i, roles_n>>
genVars == <<gen_kind, gen_reply, gen_result>>
detVars == <<det_case, det_truth, det_suspects, det_evidence, det_discovered,
             det_interrogations, det_messages, det_scores, det_result>>
wwVars == <<game_state, game_messages, timers, ww_result, vote_requests>>
msgVars == <<msg_table, msg_clock, msg_result>>
autoVars == <<active_games, units, callers, host_result>>
vars == <<characters, db_characters, appended, store_result, roles, shuffle_i, roles_n,
          gen_kind, gen_reply, gen_result,
          det_case, det_truth, det_suspects, det_evidence, det_discovered,
          det_interrogations, det_messages, det_scores, det_result,
          game_state, game_messages, timers, ww_result, vote_requests,
          msg_table, msg_clock, msg_result,
          active_games, units, callers, host_result>>

\* what the operations of one part leave alone
exceptStore == <<roleVars, genVars, detVars, wwVars, msgVars, autoVars>>
exceptRoles == <<storeVars, genVars, detVars, wwVars, msgVars, autoVars>>
exceptGen == <<storeVars, roleVars, detVars, wwVars, msgVars, autoVars>>
exceptDet == <<storeVars, roleVars, genVars, wwVars, msgVars, autoVars>>
exceptWerewolf == <<storeVars, roleVars, genVars, detVars, msgVars, autoVars>>
exceptMsg == <<storeVars, roleVars, genVars, detVars, wwVars, autoVars>>
exceptAuto == <<storeVars, roleVars, genVars, detVars, wwVars, msgVars>>

(***************************************************************************)
(* Character store                                                         *)
(***************************************************************************)

\* the cap of AICharacter.add_memory
MemCap == 50

\* number of memory appends explored per character
MaxAppends == 60

Sessions == {"s1", "s2"}

\* sessions in which characters are created; "s2" stays unknown to the store
KnownSessions == {"s1"}

CharIds == {"c1", "c2"}

\* number of memory appends explored for the characters other than "c1"
MaxOtherAppends == 2

AppendBound(c) == IF c = "c1" THEN MaxAppends ELSE MaxOtherAppends

NoChar == [none |-> TRUE]

\* json.dumps / json.loads of a memory list: the database holds text
json_dumps(v) == <<"json", v>>

json_loads(s) == s[2]

\* a memory item; the ordinal stands for its (timestamp, event, context)
MemoryItem(n) == [event |-> n]

\* the object built by AICharacter.__init__
NewAICharacter == [memory |-> <<>>, is_alive |-> TRUE]

\* mutation: the log is cut to its first MemCap entries
add_memory_keep_oldest(memory, item) ==
    LET m == Append(memory, item)
    IN  IF Len(m) > MemCap THEN SubSeq(m, 1, MemCap) ELSE m

\* AICharacter.add_memory: append, then keep the last MemCap entries
add_memory(memory, item) ==
    LET m == Append(memory, item)
    IN  IF Len(m) > MemCap THEN SubSeq(m, Len(m) - MemCap + 1, Len(m)) ELSE m

\* AICharacterManager.get_character: None for an unknown session or id
get_character(s, c) == characters[s][c]

\* the rows of game_characters never leave: a character is persisted once
\* create_character has run for it
Persisted(s, c) == db_characters[s][c] # NoChar

\* the memory list in a character's row
PersistedLog(s, c) ==
    IF Persisted(s, c) THEN json_loads(db_characters[s][c].memory) ELSE <<>>

NoStoreResult ==
    [op |-> "none", session_id |-> "s1", character_id |-> "c1",
     value |-> NoChar, persisted |-> FALSE, log_before |-> <<>>, item |-> 0,
     dead_before |-> {}]

\* a store operation on (s, c): what get_character gave it, whether the
\* character had a row, the persisted log before the call, and the ordinal of
\* the event the call brings
StoreResult(op, s, c) ==
    [op |-> op, session_id |-> s, character_id |-> c,
     value |-> get_character(s, c), persisted |-> Persisted(s, c),
     log_before |-> PersistedLog(s, c), item |-> appended[s][c] + 1,
     dead_before |-> {}]

StoreInit ==
    /\ characters = [s \in Sessions |-> [c \in CharIds |-> NoChar]]
    /\ db_characters = [s \in Sessions |-> [c \in CharIds |-> NoChar]]
    /\ appended = [s \in Sessions |-> [c \in CharIds |-> 0]]
    /\ store_result = NoStoreResult

\* a caller's get_character(session_id, character_id)
GetCharacter(s, c) ==
    /\ store_result' = StoreResult("get_character", s, c)
    /\ UNCHANGED <<characters, db_characters, appended>>
    /\ UNCHANGED exceptStore

\* AICharacterManager.create_character: a fresh id, registered and persisted
create_character(s, c) ==
    /\ s \in KnownSessions
    /\ db_characters[s][c] = NoChar
    /\ characters[s][c] = NoChar
    /\ characters' = [characters EXCEPT ![s][c] = NewAICharacter]
    /\ db_characters' = [db_characters EXCEPT ![s][c] =
            [memory |-> json_dumps(NewAICharacter.memory), is_alive |-> 1]]
    /\ store_result' = StoreResult("create_character", s, c)
    /\ UNCHANGED appended
    /\ UNCHANGED exceptStore

\* mutation: an update for an unregistered character registers a fresh one
MemoryUpdate_creating(chars, s, c) ==
    LET known == IF chars[s][c] = NoChar
                 THEN [chars EXCEPT ![s][c] = NewAICharacter] ELSE chars
        mem == add_memory(known[s][c].memory, MemoryItem(appended[s][c] + 1))
    IN  /\ characters' = [known EXCEPT ![s][c].memory = mem]
        /\ db_characters' = [db_characters EXCEPT ![s][c] =
                [memory |-> json_dumps(mem), is_alive |-> 1]]
        /\ appended' = [appended EXCEPT ![s][c] = @ + 1]

\* the effect of update_character_memory on the three store variables,
\* starting from registry chars (so that callers can change the flag first)
MemoryUpdate(chars, s, c) ==
    IF chars[s][c] = NoChar
    THEN /\ characters' = chars
         /\ UNCHANGED <<db_characters, appended>>
    ELSE LET mem == add_memory(chars[s][c].memory, MemoryItem(appended[s][c] + 1))
         IN  /\ characters' = [chars EXCEPT ![s][c].memory = mem]
             /\ db_characters' = IF db_characters[s][c] = NoChar
                                 THEN db_characters
                                 ELSE [db_characters EXCEPT ![s][c].memory = json_dumps(mem)]
             /\ appended' = [appended EXCEPT ![s][c] = @ + 1]

\* AICharacterManager.update_character_memory
update_character_memory(s, c) ==
    /\ appended[s][c] < AppendBound(c)
    /\ MemoryUpdate(characters, s, c)
    /\ store_result' = StoreResult("update_character_memory", s, c)
    /\ UNCHANGED exceptStore

\* AICharacterManager.kill_character
kill_character(s, c) ==
    /\ appended[s][c] < AppendBound(c)
    /\ MemoryUpdate(IF characters[s][c] = NoChar THEN characters
                    ELSE [characters EXCEPT ![s][c].is_alive = FALSE], s, c)
    /\ store_result' = StoreResult("kill_character", s, c)
    /\ UNCHANGED exceptStore

\* AICharacterManager.revive_character
revive_character(s, c) ==
    /\ appended[s][c] < AppendBound(c)
    /\ MemoryUpdate(IF characters[s][c] = NoChar THEN characters
                    ELSE [characters EXCEPT ![s][c].is_alive = TRUE], s, c)
    /\ store_result' = StoreResult("revive_character", s, c)
    /\ UNCHANGED exceptStore

\* the registered characters of session s whose flag is_alive is False
Dead(s) == {c \in CharIds : characters[s][c] # NoChar /\ ~characters[s][c].is_alive}

\* AICharacterManager.load_characters: rebuild the registry from the rows;
\* the result keeps which characters were dead when it was called
load_characters(s) ==
    /\ characters' = [characters EXCEPT ![s] = [c \in CharIds |->
            IF db_characters[s][c] = NoChar THEN characters[s][c]
            ELSE [memory |-> json_loads(db_characters[s][c].memory),
                  is_alive |-> db_characters[s][c].is_alive # 0]]]
    /\ store_result' = [NoStoreResult EXCEPT !.op = "load_characters",
                                             !.session_id = s,
                                             !.dead_before = Dead(s)]
    /\ UNCHANGED <<db_characters, appended>>
    /\ UNCHANGED exceptStore

\* a process restart: the in-process registry (AICharacterManager.__init__) is empty
Restart ==
    /\ characters' = [s \in Sessions |-> [c \in CharIds |-> NoChar]]
    /\ store_result' = [NoStoreResult EXCEPT !.op = "restart"]
    /\ UNCHANGED <<db_characters, appended>>
    /\ UNCHANGED exceptStore

StoreNext ==
    \/ \E s \in Sessions, c \in CharIds : GetCharacter(s, c)
    \/ \E s \in Sessions, c \in CharIds : create_character(s, c)
    \/ \E s \in Sessions, c \in CharIds : update_character_memory(s, c)
    \/ \E s \in Sessions, c \in CharIds : kill_character(s, c)
    \/ \E s \in Sessions, c \in CharIds : revive_character(s, c)
    \/ \E s \in Sessions : load_characters(s)
    \/ Restart

(***************************************************************************)
(* Werewolf role generation                                                *)
(***************************************************************************)

RoleNames == <<"werewolf", "villager", "seer", "witch", "hunter">>

PlayerCounts == {6, 8, 10, 12}

\* WerewolfGame.role_configs
role_configs(n) ==
    CASE n = 6  -> [werewolf |-> 2, villager |-> 3, seer |-> 1, witch |-> 0, hunter |-> 0]
      [] n = 8  -> [werewolf |-> 2, villager |-> 4, seer |-> 1, witch |-> 1, hunter |-> 0]
      [] n = 10 -> [werewolf |-> 3, villager |-> 5, seer |-> 1, witch |-> 1, hunter |-> 0]
      [] n = 12 -> [werewolf |-> 4, villager |-> 6, seer |-> 1, witch |-> 1, hunter |-> 0]

\* ['r'] * k
Repeat(r, k) == [i \in 1..k |-> r]

\* mutation: the seer is left out of the list
roles_list_without_seer(n) ==
    LET config == role_configs(n)
    IN  Repeat("werewolf", config.werewolf) \o Repeat("villager", config.villager)
        \o (IF config.witch > 0 THEN Repeat("witch", config.witch) ELSE <<>>)
        \o (IF config.hunter > 0 THEN Repeat("hunter", config.hunter) ELSE <<>>)

\* the list _generate_roles builds before shuffling it
roles_list(n) ==
    LET config == role_configs(n)
    IN  Repeat("werewolf", config.werewolf) \o Repeat("villager", config.villager)
        \o Repeat("seer", config.seer)
        \o (IF config.witch > 0 THEN Repeat("witch", config.witch) ELSE <<>>)
        \o (IF config.hunter > 0 THEN Repeat("hunter", config.hunter) ELSE <<>>)

\* number of entries of list l equal to r
CountOf(l, r) == Cardinality({i \in 1..Len(l) : l[i] = r})

RolesInit ==
    /\ roles = <<>>
    /\ shuffle_i = 0
    /\ roles_n = 0

\* _generate_roles(player_count) up to the call of random.shuffle
generate_roles(n) ==
    /\ shuffle_i = 0
    /\ roles_n' = n
    /\ roles' = roles_list(n)
    /\ shuffle_i' = Len(roles_list(n))
    /\ UNCHANGED exceptRoles

\* one iteration of random.shuffle (Fisher-Yates, from the last index down):
\* j = randbelow(i + 1); x[i], x[j] = x[j], x[i]
shuffle_step(j) ==
    /\ shuffle_i > 1
    /\ j \in 1..shuffle_i
    /\ roles' = [roles EXCEPT ![shuffle_i] = roles[j], ![j] = roles[shuffle_i]]
    /\ shuffle_i' = shuffle_i - 1
    /\ UNCHANGED <<roles_n>>
    /\ UNCHANGED exceptRoles

\* random.shuffle returns and _generate_roles returns the list
shuffle_done ==
    /\ shuffle_i = 1
    /\ shuffle_i' = 0
    /\ UNCHANGED <<roles, roles_n>>
    /\ UNCHANGED exceptRoles

RolesNext ==
    \/ \E n \in PlayerCounts : generate_roles(n)
    \/ \E j \in 1..12 : shuffle_step(j)
    \/ shuffle_done

(***************************************************************************)
(* Narrative adapter replies and scenario generation                       *)
(***************************************************************************)

\* A reply text is a sequence of tokens:
\*   "fjn" = ```json\n   "fj" = ```json   "fn" = ```\n   "f" = ```
\*   "lb" = {   "rb" = }   "t" = other text   "ws" = whitespace
\* and <<"lb", "rb">> is the text of one JSON object, whose value is the
\* reply's doc.
Contents ==
    { <<>>, <<"ws">>, <<"t">>, <<"lb", "rb">>, <<"ws", "lb", "rb", "ws">>,
      <<"fjn", "lb", "rb", "f">>, <<"f", "lb", "rb", "f">>, <<"fjn", "lb", "rb">>,
      <<"t", "lb", "rb", "t">>, <<"lb", "t">>, <<"lb", "t", "rb">>,
      <<"fjn", "t", "f">>, <<"fj", "lb", "rb", "fn">> }

\* A scenario: keys says which key names the document uses, truth is the
\* dict under its 'truth' key ({} when it has no such key, as a set of
\* <<key, value>> pairs) and culprit is the culprit the scenario itself names.
NoDoc == [keys |-> "none", canned |-> FALSE, title |-> "", suspects |-> <<>>,
          clues |-> 0, truth |-> {}, culprit |-> ""]

\* dict.get(key, default)
get(d, key, default) ==
    IF \E p \in d : p[1] = key
    THEN (CHOOSE p \in d : p[1] = key)[2]
    ELSE default

\* scenarios a language model may write: with the localized keys the prompt
\* asks for, or with english keys
Docs ==
    { [keys |-> "cn", canned |-> FALSE, title |-> "CaseA",
       suspects |-> <<"Ann", "Bob">>, clues |-> 2, truth |-> {},
       culprit |-> "Bob"],
      [keys |-> "en", canned |-> FALSE, title |-> "CaseB",
       suspects |-> <<"Ann", "Bob">>, clues |-> 2,
       truth |-> {<<"killer", "Ann">>}, culprit |-> "Ann"] }

\* OpenRouterService.chat_completion on failure: success False, content ''
FailReply == [success |-> FALSE, content |-> <<>>, doc |-> NoDoc]

Replies ==
    {FailReply} \cup
    { [success |-> TRUE, content |-> c, doc |-> d] :
        c \in Contents, d \in Docs }

SetMin(S) == CHOOSE x \in S : \A y \in S : x <= y

SetMax(S) == CHOOSE x \in S : \A y \in S : x >= y

\* str.strip()
Strip(s) ==
    LET keep == {i \in 1..Len(s) : s[i] # "ws"}
    IN  IF keep = {} THEN <<>> ELSE SubSeq(s, SetMin(keep), SetMax(keep))

\* str.find / str.rfind of one of the tokens toks: 0-based, -1 when absent
Find(s, toks) ==
    LET at == {i \in 1..Len(s) : s[i] \in toks}
    IN  IF at = {} THEN -1 ELSE SetMin(at) - 1

RFind(s, toks) ==
    LET at == {i \in 1..Len(s) : s[i] \in toks}
    IN  IF at = {} THEN -1 ELSE SetMax(at) - 1

\* s[a:b] for 0 <= a <= b
Slice(s, a, b) == SubSeq(s, a + 1, b)

\* the markers _generate_case looks for, in order
Markers == << {"fjn"}, {"fjn", "fj"}, {"fn"}, {"fjn", "fj", "fn", "f"} >>

FenceTokens == {"fjn", "fj", "fn", "f"}

\* json_start of _generate_case: after the first marker found, else at the
\* first brace, else -1 (ValueError)
JsonStart(s) ==
    LET hit == {k \in 1..Len(Markers) : Find(s, Markers[k]) # -1}
    IN  IF hit # {} THEN Find(s, Markers[SetMin(hit)]) + 1
        ELSE Find(s, {"lb"})

\* json_end of _generate_case: the last fence if it lies after json_start,
\* else one past the last closing brace
JsonEnd(s, json_start) ==
    LET e == RFind(s, FenceTokens)
    IN  IF e = -1 \/ e <= json_start THEN RFind(s, {"rb"}) + 1 ELSE e

\* json.loads succeeds on the text of one JSON object
json_parses(s) == Strip(s) = <<"lb", "rb">>

\* mutation: the canned case names a culprit who is not among its suspects
get_fallback_case_wrong_culprit ==
    [keys |-> "cn", canned |-> TRUE, title |-> "MansionMurder",
     suspects |-> <<"MrsLi", "AssistantZhang", "LawyerWang">>,
     clues |-> 5, truth |-> {}, culprit |-> "MrLi"]

\* DetectiveGame._get_fallback_case: localized keys, the culprit under
\* the localized truth key, no 'truth' key
get_fallback_case ==
    [keys |-> "cn", canned |-> TRUE, title |-> "MansionMurder",
     suspects |-> <<"MrsLi", "AssistantZhang", "LawyerWang">>,
     clues |-> 5, truth |-> {}, culprit |-> "MrsLi"]

\* DetectiveGame._generate_case
generate_case(reply) ==
    IF ~reply.success THEN get_fallback_case
    ELSE IF Strip(reply.content) = <<>> THEN get_fallback_case
    ELSE LET cleaned == Strip(reply.content)
             json_start == JsonStart(cleaned)
             json_end == JsonEnd(cleaned, json_start)
         IN  IF json_start = -1 THEN get_fallback_case
             ELSE IF json_end <= json_start THEN get_fallback_case
             ELSE IF json_parses(Slice(cleaned, json_start, json_end))
                  THEN reply.doc
                  ELSE get_fallback_case

\* the names GameContentGenerator.generate_character_names draws from
NamePoolSize == 6

\* the count generate_character_names is called with
NameCount == 6

AllNames == <<"n1", "n2", "n3", "n4", "n5", "n6", "n7", "n8", "n9", "n10", "n11", "n12">>

NamePool == {AllNames[i] : i \in 1..NamePoolSize}

\* random.sample(names, min(count, len(names))): distinct names in any order
NameSamples ==
    LET k == IF NameCount < NamePoolSize THEN NameCount ELSE NamePoolSize
    IN  {f \in [1..k -> NamePool] : \A i, j \in 1..k : i # j => f[i] # f[j]}

ScriptTypes == {"modern_campus", "ancient_palace"}

\* mutation: the canned script names the victim as the culprit
generate_fallback_script_victim(script_type, character_names) ==
    [keys |-> "script", canned |-> TRUE,
     title |-> IF script_type = "modern_campus" THEN "CampusNight" ELSE "OtherScript",
     suspects |-> SubSeq(character_names, 2, 6),
     clues |-> 8, truth |-> {<<"culprit", character_names[1]>>},
     culprit |-> character_names[1]]

\* ScriptHostGame._generate_fallback_script: character_names[0] is the victim,
\* character_names[1:] the characters, character_names[2] the culprit
generate_fallback_script(script_type, character_names) ==
    [keys |-> "script", canned |-> TRUE,
     title |-> IF script_type = "modern_campus" THEN "CampusNight" ELSE "OtherScript",
     suspects |-> SubSeq(character_names, 2, 6),
     clues |-> 8, truth |-> {<<"culprit", character_names[3]>>},
     culprit |-> character_names[3]]

\* ScriptHostGame._generate_script: json.loads of the reply's content
generate_script(reply, script_type, character_names) ==
    IF json_parses(reply.content) THEN reply.doc
    ELSE generate_fallback_script(script_type, character_names)

GenInit ==
    /\ gen_kind = "none"
    /\ gen_reply = FailReply
    /\ gen_result = NoDoc

\* a call of DetectiveGame._generate_case
GenerateCase(reply) ==
    /\ gen_kind = "none"
    /\ gen_kind' = "detective"
    /\ gen_reply' = reply
    /\ gen_result' = generate_case(reply)
    /\ UNCHANGED exceptGen

\* a call of ScriptHostGame._generate_script
GenerateScript(reply, script_type, character_names) ==
    /\ gen_kind = "none"
    /\ gen_kind' = "script"
    /\ gen_reply' = reply
    /\ gen_result' = generate_script(reply, script_type, character_names)
    /\ UNCHANGED exceptGen

\* the generator is called again (a new session)
GenAgain ==
    /\ gen_kind # "none"
    /\ gen_kind' = "none"
    /\ gen_reply' = FailReply
    /\ gen_result' = NoDoc
    /\ UNCHANGED exceptGen

\* ScriptHostGame.create_new_game: any reply, script type and name sample
CreateScript ==
    /\ gen_kind = "none"
    /\ \E reply \in Replies, st \in ScriptTypes, names \in NameSamples :
          GenerateScript(reply, st, names)

GenNext ==
    \/ \E reply \in Replies : GenerateCase(reply)
    \/ CreateScript
    \/ GenAgain

(***************************************************************************)
(* DetectiveGame: one session                                              *)
(***************************************************************************)

MaxDetMessages == 9

MaxConclusions == 2

\* Python None
None == <<"none">>

NoResult ==
    [op |-> "none", success |-> FALSE, correct |-> FALSE, score |-> 0,
     accused |-> "", actual_killer |-> "", case_closed |-> FALSE]

NoScore == [correct |-> FALSE, accused |-> "", actual_killer |-> "", score |-> 0]

Failure(op) == [NoResult EXCEPT !.op = op]

Success(op) == [NoResult EXCEPT !.op = op, !.success = TRUE]

SuspectNames(case_data) == {case_data.suspects[i] : i \in 1..Len(case_data.suspects)}

\* names a client may send: the suspects of the case, and somebody else
Accusable == SuspectNames(det_case) \cup {"Nobody"}

max(a, b) == IF a >= b THEN a ELSE b

DetInit ==
    /\ det_case = NoDoc
    /\ det_truth = None
    /\ det_suspects = {}
    /\ det_evidence = [n |-> 0, discovered |-> {}]
    /\ det_discovered = 0
    /\ det_interrogations = 0
    /\ det_messages = 0
    /\ det_scores = [rows |-> 0, last |-> NoScore]
    /\ det_result = NoResult

\* DetectiveGame._initialize_case: generate, store case_data and truth, create
\* the suspects, reset the evidence and the counters, send the introduction
initialize_case(reply) ==
    LET case_data == generate_case(reply)
    IN  /\ det_case' = case_data
        /\ det_truth' = json_dumps(case_data.truth)
        /\ det_suspects' = det_suspects \cup SuspectNames(case_data)
        /\ det_evidence' = [n |-> case_data.clues, discovered |-> {}]
        /\ det_discovered' = 0
        /\ det_interrogations' = 0
        /\ det_messages' = det_messages + 1

\* DetectiveGame.create_new_game
det_create_new_game(reply) ==
    /\ det_truth = None
    /\ initialize_case(reply)
    /\ det_result' = Success("create_new_game")
    /\ UNCHANGED det_scores
    /\ UNCHANGED exceptDet

\* DetectiveGame.start_case: the case is generated again
start_case(reply) ==
    /\ det_truth # None
    /\ initialize_case(reply)
    /\ det_result' = Success("start_case")
    /\ UNCHANGED det_scores
    /\ UNCHANGED exceptDet

\* DetectiveGame.interrogate_suspect: an unknown name or a failed adapter call
\* returns an error and writes nothing
interrogate_suspect(suspect_name, reply) ==
    /\ det_truth # None
    /\ IF suspect_name \notin det_suspects \/ ~reply.success
       THEN /\ det_result' = Failure("interrogate_suspect")
            /\ UNCHANGED <<det_interrogations, det_messages>>
       ELSE /\ det_messages' = det_messages + 2
            /\ det_interrogations' = det_interrogations + 1
            /\ det_result' = Success("interrogate_suspect")
    /\ UNCHANGED <<det_case, det_truth, det_suspects, det_evidence,
                   det_discovered, det_scores>>
    /\ UNCHANGED exceptDet

\* DetectiveGame.analyze_evidence: evidence the list does not hold is an error
analyze_evidence(e) ==
    /\ det_truth # None
    /\ IF e \notin 1..det_evidence.n
       THEN /\ det_result' = Failure("analyze_evidence")
            /\ UNCHANGED <<det_evidence, det_discovered, det_messages>>
       ELSE LET found == det_evidence.discovered \cup {e}
            IN  /\ det_evidence' = [det_evidence EXCEPT !.discovered = found]
                /\ det_discovered' = Cardinality(found)
                /\ det_messages' = det_messages + 2
                /\ det_result' = Success("analyze_evidence")
    /\ UNCHANGED <<det_case, det_truth, det_suspects, det_interrogations,
                   det_scores>>
    /\ UNCHANGED exceptDet

\* mutation: the bonus without its floor
efficiency_bonus_unfloored(interrogation_count) == 50 - interrogation_count * 5

\* submit_conclusion's efficiency_bonus
efficiency_bonus(interrogation_count) == max(0, 50 - interrogation_count * 5)

\* what submit_conclusion computes and returns
submit_result(suspect) ==
    LET truth == json_loads(det_truth)
        correct_killer == get(truth, "killer", "")
        is_correct == suspect = correct_killer
        base_score == IF is_correct THEN 100 ELSE 0
        bonus == efficiency_bonus(det_interrogations)
        clue_bonus == det_discovered * 10
        total_score == base_score + bonus + clue_bonus
    IN  [op |-> "submit_conclusion", success |-> TRUE, correct |-> is_correct,
         score |-> total_score, accused |-> suspect,
         actual_killer |-> correct_killer, case_closed |-> TRUE]

\* DetectiveGame.submit_conclusion
submit_conclusion(suspect) ==
    /\ IF det_truth = None
       THEN /\ det_result' = Failure("submit_conclusion")
            /\ UNCHANGED <<det_messages, det_scores>>
       ELSE LET r == submit_result(suspect)
            IN  /\ det_messages' = det_messages + 2
                /\ det_scores' =
                     [rows |-> det_scores.rows + 1,
                      last |-> [correct |-> r.correct, accused |-> r.accused,
                                actual_killer |-> r.actual_killer,
                                score |-> r.score]]
                /\ det_result' = r
    /\ UNCHANGED <<det_case, det_truth, det_suspects, det_evidence,
                   det_discovered, det_interrogations>>
    /\ UNCHANGED exceptDet

\* the handlers, explored while the session holds at most MaxDetMessages
\* messages and MaxConclusions scores
StartCase ==
    /\ det_messages + 1 <= MaxDetMessages
    /\ \E reply \in Replies : start_case(reply)

Interrogate ==
    /\ det_messages + 2 <= MaxDetMessages
    /\ \E s \in Accusable, reply \in Replies : interrogate_suspect(s, reply)

Analyze ==
    /\ det_messages + 2 <= MaxDetMessages
    /\ \E e \in 1..6 : analyze_evidence(e)

Conclude ==
    /\ det_scores.rows < MaxConclusions
    /\ det_messages + 2 <= MaxDetMessages
    /\ \E s \in Accusable : submit_conclusion(s)

DetNext ==
    \/ \E reply \in Replies : det_create_new_game(reply)
    \/ StartCase
    \/ Interrogate
    \/ Analyze
    \/ Conclude

\* One case played long: interrogations up to MaxInterrogations, each piece of
\* evidence analyzed once, and one conclusion.
MaxInterrogations == 12

\* the adapter's replies to an interrogation that are explored
InterrogationReplies == {FailReply, [success |-> TRUE, content |-> <<"t">>, doc |-> NoDoc]}

InterrogateOften ==
    /\ det_interrogations < MaxInterrogations
    /\ \E s \in Accusable, reply \in InterrogationReplies :
         interrogate_suspect(s, reply)

AnalyzeNew ==
    \E e \in 1..6 : e \notin det_evidence.discovered /\ analyze_evidence(e)

ConcludeOnce ==
    /\ det_scores.rows = 0
    /\ \E s \in Accusable : submit_conclusion(s)

ScoreNext ==
    \/ \E reply \in Replies : det_create_new_game(reply)
    \/ InterrogateOften
    \/ AnalyzeNew
    \/ ConcludeOnce

(***************************************************************************)
(* WerewolfGame: one session                                               *)
(***************************************************************************)

\* create_new_game's default player_count, the one the routes use
DefaultPlayerCount == 8

\* the human is player 1, the AI players are 2..N
AINumbers == 2..DefaultPlayerCount

\* str() and int() of the small numbers the game stores as text
Digits == <<"0", "1", "2", "3", "4", "5", "6", "7", "8", "9", "10", "11", "12">>

str(n) == Digits[n + 1]

int(s) == (CHOOSE i \in 1..Len(Digits) : Digits[i] = s) - 1

\* get_game_state_value of a key that has no row
NoValue == "None"

\* truth value of a text read from game_state
Truthy(v) == v \notin {NoValue, ""}

\* a session id that create_new_game has not made: no row of game_states
NoGame ==
    [ai_players |-> [n \in AINumbers |-> [role |-> NoValue, alive |-> FALSE]],
     player_role |-> NoValue,
     player_alive |-> NoValue,
     current_phase |-> NoValue,
     day_count |-> NoValue,
     winner |-> NoValue,
     night_kill_target |-> NoValue,
     witch_save_target |-> NoValue,
     witch_poison_target |-> NoValue,
     witch_poison_used |-> FALSE,
     witch_antidote_used |-> FALSE,
     player_vote |-> NoValue,
     ai_votes |-> {},
     judge_id |-> NoValue]

\* A handler works on a bundle s: the session's game_state rows (gs), its
\* messages (msgs), the pending timers, a trace of what the handler did, the
\* value of the last _check_game_over call (over), the adapter's reply to
\* the judge prompts and the kill prompt of the handler (reply), and the
\* player_vote requests in progress (requests).
AddMsg(s, speaker_type) == [s EXCEPT !.msgs = Append(@, speaker_type)]

AliveAI(gs) == {n \in AINumbers : gs.ai_players[n].alive}

AIWithRole(gs, players, role) == {n \in players : gs.ai_players[n].role = role}

\* int(day_count or 1)
DayCount(gs) == IF Truthy(gs.day_count) THEN int(gs.day_count) ELSE 1

\* living werewolves and living others, as _check_game_over counts them
AliveWerewolves(gs) ==
    Cardinality(AIWithRole(gs, AliveAI(gs), "werewolf"))
    + (IF gs.player_alive # "false" /\ gs.player_role = "werewolf" THEN 1 ELSE 0)

AliveGoodGuys(gs) ==
    Cardinality(AliveAI(gs) \ AIWithRole(gs, AliveAI(gs), "werewolf"))
    + (IF gs.player_alive # "false" /\ gs.player_role # "werewolf" THEN 1 ELSE 0)

\* mutation: a tie is no werewolf win
game_winner_strict(werewolves, good_guys) ==
    IF werewolves = 0 THEN "villagers"
    ELSE IF werewolves > good_guys THEN "werewolves"
    ELSE NoValue

\* the winner _check_game_over decides on, NoValue for none
game_winner(werewolves, good_guys) ==
    IF werewolves = 0 THEN "villagers"
    ELSE IF werewolves >= good_guys THEN "werewolves"
    ELSE NoValue

\* what a _check_game_over call saw, reported and left behind
CheckEntry(before, after, winner) ==
    [ev |-> "check",
     werewolves |-> AliveWerewolves(before),
     good_guys |-> AliveGoodGuys(before),
     reported |-> winner,
     phase_before |-> before.current_phase,
     winner_before |-> before.winner,
     phase_after |-> after.current_phase,
     winner_after |-> after.winner]

\* the end of the session: phase, winner and the closing message
end_game(s, winner) ==
    AddMsg([s EXCEPT !.gs.current_phase = "game_over", !.gs.winner = winner], "judge")

\* WerewolfGame._check_game_over
check_game_over(s) ==
    LET winner == game_winner(AliveWerewolves(s.gs), AliveGoodGuys(s.gs))
        a == IF winner # NoValue THEN end_game(s, winner) ELSE s
    IN  [a EXCEPT !.trace = Append(@, CheckEntry(s.gs, a.gs, winner)),
                  !.over = winner # NoValue]

\* the targets _werewolf_kill_action chooses from: living AI non-werewolves
KillTargets(gs) == AliveAI(gs) \ AIWithRole(gs, AliveAI(gs), "werewolf")

\* mutation: any number the reply parses to is taken
werewolf_kill_action_trusting(gs, alive_players, target_number, pick) ==
    LET targets == alive_players \ AIWithRole(gs, alive_players, "werewolf")
    IN  IF targets = {} THEN 0
        ELSE IF target_number > 0 THEN target_number
        ELSE pick

\* WerewolfGame._werewolf_kill_action: None (0) without targets; the number
\* the reply parses to (-1: it is no number) when a living AI player that is
\* no werewolf has it; else what random.choice(targets) picks. The human is
\* no entry of alive_players, so priority_targets is empty.
werewolf_kill_action(gs, alive_players, target_number, pick) ==
    LET targets == alive_players \ AIWithRole(gs, alive_players, "werewolf")
    IN  IF targets = {} THEN 0
        ELSE IF target_number \in targets THEN target_number
        ELSE pick

\* int(response.strip()) of the kill prompt's reply; -1 stands for ValueError
parse_number(content) ==
    IF \E i \in 1..Len(Digits) : Digits[i] = content THEN int(content) ELSE -1

\* step 1 of _execute_night_actions: with a living AI werewolf, the kill
\* target is stored when _werewolf_kill_action returns one; kill is the pick
\* of random.choice
werewolf_kill(s, alive_players, kill) ==
    LET kill_target == werewolf_kill_action(s.gs, alive_players,
                                            parse_number(s.reply.content), kill)
    IN  IF AIWithRole(s.gs, alive_players, "werewolf") # {} /\ kill_target # 0
        THEN [s EXCEPT !.gs.night_kill_target = str(kill_target),
                       !.trace = Append(@, [ev |-> "kill",
                                            target |-> str(kill_target),
                                            reply |-> s.reply.content])]
        ELSE s

\* step 2: _seer_check_action records one check when there is somebody to check
seer_check(s, alive_players) ==
    LET seers == AIWithRole(s.gs, alive_players, "seer")
    IN  IF seers # {} /\ alive_players \ seers # {}
        THEN AddMsg([s EXCEPT !.trace = Append(@, [ev |-> "seer"])], "seer")
        ELSE s

\* the options _witch_action offers, in order
WitchActions(gs) ==
    (IF ~gs.witch_antidote_used /\ Truthy(gs.night_kill_target)
     THEN <<"antidote">> ELSE <<>>)
    \o (IF ~gs.witch_poison_used THEN <<"poison">> ELSE <<>>)
    \o <<"none">>

\* whom the witch may poison: the AI players living at nightfall, but herself
PoisonTargets(gs, alive_players) ==
    alive_players \ AIWithRole(gs, alive_players, "witch")

\* mutation: the witch finds both potions unused every night
witch_action_refilled(s, alive_players, choice, poison) ==
    LET gs == [s.gs EXCEPT !.witch_antidote_used = FALSE,
                           !.witch_poison_used = FALSE]
        actions == WitchActions(gs)
        w == [s EXCEPT !.trace = Append(@, [ev |-> "witch",
                                            kill_target |-> gs.night_kill_target,
                                            antidote_used |-> gs.witch_antidote_used,
                                            poison_used |-> gs.witch_poison_used])]
    IN  IF AIWithRole(gs, alive_players, "witch") = {} THEN s
        ELSE IF Len(actions) = 1 THEN w
        ELSE IF ~Truthy(gs.night_kill_target) THEN w
        ELSE IF choice = -1 THEN AddMsg(w, "witch")
        ELSE IF choice \notin 1..Len(actions) THEN w
        ELSE IF actions[choice] = "antidote" /\ ~gs.witch_antidote_used
             THEN AddMsg([w EXCEPT !.gs.witch_save_target = gs.night_kill_target,
                                   !.gs.witch_antidote_used = TRUE], "witch")
        ELSE IF actions[choice] = "poison" /\ ~gs.witch_poison_used
             THEN IF PoisonTargets(gs, alive_players) = {} THEN w
                  ELSE AddMsg([w EXCEPT !.gs.witch_poison_target = str(poison),
                                        !.gs.witch_poison_used = TRUE], "witch")
        ELSE AddMsg(w, "witch")

\* step 3: _witch_action. choice is the number the adapter's reply parses to
\* (-1: no number); poison is random.choice's pick.
witch_action(s, alive_players, choice, poison) ==
    LET gs == s.gs
        actions == WitchActions(gs)
        w == [s EXCEPT !.trace = Append(@, [ev |-> "witch",
                                            kill_target |-> gs.night_kill_target,
                                            antidote_used |-> gs.witch_antidote_used,
                                            poison_used |-> gs.witch_poison_used])]
    IN  IF AIWithRole(gs, alive_players, "witch") = {} THEN s
        ELSE IF Len(actions) = 1 THEN w
        ELSE IF ~Truthy(gs.night_kill_target) THEN w
        ELSE IF choice = -1 THEN AddMsg(w, "witch")
        ELSE IF choice \notin 1..Len(actions) THEN w
        ELSE IF actions[choice] = "antidote" /\ ~gs.witch_antidote_used
             THEN AddMsg([w EXCEPT !.gs.witch_save_target = gs.night_kill_target,
                                   !.gs.witch_antidote_used = TRUE], "witch")
        ELSE IF actions[choice] = "poison" /\ ~gs.witch_poison_used
             THEN IF PoisonTargets(gs, alive_players) = {} THEN w
                  ELSE AddMsg([w EXCEPT !.gs.witch_poison_target = str(poison),
                                        !.gs.witch_poison_used = TRUE], "witch")
        ELSE AddMsg(w, "witch")

\* the deaths list _process_night_results builds
night_deaths(kill_target, save_target, poison_target) ==
    (IF Truthy(kill_target) /\ kill_target # save_target
     THEN <<int(kill_target)>> ELSE <<>>)
    \o (IF Truthy(poison_target) THEN <<int(poison_target)>> ELSE <<>>)

SeqToSet(q) == {q[i] : i \in 1..Len(q)}

\* the players after the deaths of a night
MarkDead(ai_players, deaths) ==
    [n \in AINumbers |->
        IF n \in SeqToSet(deaths)
        THEN [ai_players[n] EXCEPT !.alive = FALSE]
        ELSE ai_players[n]]

\* what a _process_night_results call saw, returned and left behind
NightEntry(before, after, deaths) ==
    [ev |-> "night",
     kill_target |-> before.night_kill_target,
     save_target |-> before.witch_save_target,
     poison_target |-> before.witch_poison_target,
     deaths |-> deaths,
     alive_before |-> AliveAI(before),
     alive_after |-> AliveAI(after)]

\* the night keys are cleared
clear_night(s) ==
    [s EXCEPT !.gs.night_kill_target = "",
              !.gs.witch_save_target = "",
              !.gs.witch_poison_target = ""]

\* mutation: the antidote is not looked at
process_night_results_unsaved(s) ==
    LET gs == s.gs
        deaths == night_deaths(gs.night_kill_target, NoValue, gs.witch_poison_target)
        a == clear_night([s EXCEPT !.gs.ai_players = MarkDead(gs.ai_players, deaths)])
    IN  [a EXCEPT !.trace = Append(@, NightEntry(gs, a.gs, deaths))]

\* WerewolfGame._process_night_results
process_night_results(s) ==
    LET gs == s.gs
        deaths == night_deaths(gs.night_kill_target, gs.witch_save_target,
                               gs.witch_poison_target)
        a == clear_night([s EXCEPT !.gs.ai_players = MarkDead(gs.ai_players, deaths)])
    IN  [a EXCEPT !.trace = Append(@, NightEntry(gs, a.gs, deaths))]

PhaseEntry(phase) == [ev |-> "phase", phase |-> phase]

\* what chat() returns when the call fails or times out
AdapterFailed == [success |-> FALSE, content |-> ""]

\* the adapter's replies to a judge prompt that are explored
JudgeReplies == {AdapterFailed, [success |-> TRUE, content |-> "text"]}

\* the hard-coded text in the except branch of a generator
Template(kind) ==
    CASE kind = "opening" -> "opening template"
      [] kind = "night" -> "night template"
      [] kind = "day" -> "day template"

\* str.strip on the contents that occur
strip(content) == IF content \in {"", " "} THEN "" ELSE content

\* _generate_opening_message, _generate_night_announcement and
\* _generate_day_announcement: the stripped content of the reply; the except
\* branch is taken when the content is no text
generate_announcement(kind, reply) ==
    IF reply.content = NoValue THEN Template(kind) ELSE strip(reply.content)

\* what the judge posted for a phase, and on which reply
AnnounceEntry(kind, reply, content) ==
    [ev |-> "announce", kind |-> kind, success |-> reply.success,
     content |-> content]

\* the judge's announcement is generated and appended
announce(s, kind) ==
    [AddMsg(s, "judge") EXCEPT !.trace =
        Append(@, AnnounceEntry(kind, s.reply, generate_announcement(kind, s.reply)))]

\* WerewolfGame._start_day_phase
start_day_phase(s) ==
    LET a == check_game_over(process_night_results(s))
    IN  IF a.over THEN a
        ELSE AddMsg(announce([a EXCEPT !.gs.current_phase = "day_discussion",
                                       !.trace = Append(@, PhaseEntry("day_discussion"))],
                             "day"), "system")

\* WerewolfGame._start_night_phase up to the night actions: the announcement
\* and the phase
announce_night(s) ==
    [announce(s, "night") EXCEPT !.gs.current_phase = "night",
                                 !.trace = Append(@, PhaseEntry("night"))]

\* mutation: the night stops when the witch's reply is no number
execute_night_actions_blocking(s, kill, choice, poison) ==
    LET alive_players == AliveAI(s.gs)
        w == witch_action(
                 seer_check(werewolf_kill(s, alive_players, kill), alive_players),
                 alive_players, choice, poison)
    IN  IF choice = -1 THEN w ELSE start_day_phase(w)

\* mutation: the witch acts before the werewolves
execute_night_actions_witch_first(s, kill, choice, poison) ==
    LET alive_players == AliveAI(s.gs)
    IN  start_day_phase(
            seer_check(
                werewolf_kill(witch_action(s, alive_players, choice, poison),
                              alive_players, kill),
                alive_players))

\* _execute_night_actions: werewolves, seer, witch, then the day
execute_night_actions(s, kill, choice, poison) ==
    LET alive_players == AliveAI(s.gs)
    IN  start_day_phase(
            witch_action(
                seer_check(werewolf_kill(s, alive_players, kill), alive_players),
                alive_players, choice, poison))

\* the role deals the model starts sessions with: roles[0] is the human's,
\* roles[1:] the AI players' 2..8; each is a shuffle of the 8-player list
Deals ==
    { <<"villager", "werewolf", "werewolf", "seer", "witch",
        "villager", "villager", "villager">>,
      <<"werewolf", "werewolf", "seer", "witch",
        "villager", "villager", "villager", "villager">> }

\* how many times the human speaks or votes in a session that is explored
MaxPlayerMessages == 2

\* the numbers a witch reply may parse to; -1 stands for a reply that is no number
WitchChoices == -1..3

\* the numbers a client votes for: 0, the human, the first AI player, and a
\* number nobody has
VoteNumbers == {0, 1, 2, DefaultPlayerCount + 1}

\* the days on which votes are explored; after the session has ended they are
\* explored on any day
MaxDay == 1

VoteExplored(gs) ==
    \/ (IF Truthy(gs.day_count) THEN int(gs.day_count) ELSE 1) <= MaxDay
    \/ Truthy(gs.winner)

\* the request threads that run player_vote step by step
Requests == {"v1", "v2"}

WWInit ==
    /\ vote_requests = [r \in Requests |-> [pc |-> "idle", day |-> 0]]
    /\ game_state = NoGame
    /\ game_messages = <<>>
    /\ timers = 0
    /\ ww_result = [op |-> "none", ok |-> FALSE, trace |-> <<>>]

\* the session as a handler finds it
Cur ==
    [gs |-> game_state, msgs |-> game_messages, timers |-> timers,
     trace |-> <<>>, over |-> FALSE, reply |-> AdapterFailed,
     requests |-> vote_requests]

\* the handler op returns ok and leaves the session as s
Commit(s, op, ok) ==
    /\ game_state' = s.gs
    /\ game_messages' = s.msgs
    /\ timers' = s.timers
    /\ ww_result' = [op |-> op, ok |-> ok, trace |-> s.trace]
    /\ vote_requests' = s.requests
    /\ UNCHANGED exceptWerewolf

\* the picks of random.choice and of the adapter that are explored: the first
\* and the last of the candidates (0 when there is none)
Picks(S) == IF S = {} THEN {0} ELSE {SetMin(S), SetMax(S)}

\* _start_night_phase: the announcement, the night actions with whatever the
\* adapter and random.choice yield, and the day that follows
start_night_phase(s, op, ok) ==
    \E kill \in Picks(KillTargets(s.gs)),
       choice \in WitchChoices,
       poison \in Picks(PoisonTargets(s.gs, AliveAI(s.gs)))
                  \cup (KillTargets(s.gs) \cap PoisonTargets(s.gs, AliveAI(s.gs))) :
        Commit(execute_night_actions(announce_night(s), kill, choice, poison), op, ok)

\* WerewolfGame.create_new_game with _initialize_game: roles, AI players, the
\* opening and role messages, and the first night
create_new_game(roles_dealt, reply) ==
    /\ game_state = NoGame
    /\ LET players == [n \in AINumbers |-> [role |-> roles_dealt[n], alive |-> TRUE]]
           s == AddMsg(announce([Cur EXCEPT !.reply = reply,
                                            !.gs.player_role = roles_dealt[1],
                                            !.gs.ai_players = players,
                                            !.gs.judge_id = "judge"],
                                "opening"), "system")
       IN  start_night_phase(s, "create_new_game", TRUE)

AddMsgs(s, speaker_type, k) ==
    [s EXCEPT !.msgs = @ \o [i \in 1..k |-> speaker_type]]

Min2(a, b) == IF a <= b THEN a ELSE b

\* get_game_messages(session_id, limit=15): the last 15 messages
Recent(msgs, limit) ==
    IF Len(msgs) <= limit THEN msgs ELSE SubSeq(msgs, Len(msgs) - limit + 1, Len(msgs))

PlayerMessages(msgs) ==
    Cardinality({i \in 1..Len(msgs) : msgs[i] \in {"player", "ai_player"}})

\* the human has spoken or voted less than MaxPlayerMessages times
MayAct == Cardinality({i \in 1..Len(game_messages) : game_messages[i] = "player"})
              < MaxPlayerMessages

\* WerewolfGame._start_voting_phase: the phase, the announcement, the timer
start_voting_phase(s) ==
    [AddMsg(s, "judge") EXCEPT !.gs.current_phase = "day_voting",
                               !.timers = @ + 1,
                               !.trace = Append(@, PhaseEntry("day_voting"))]

\* WerewolfGame._check_phase_progression; forced is the number of non-empty
\* replies _force_ai_discussion gets
check_phase_progression(s, forced) ==
    IF s.gs.current_phase # "day_discussion" THEN s
    ELSE LET n == PlayerMessages(Recent(s.msgs, 15))
         IN  IF n >= 4 THEN start_voting_phase(s)
             ELSE IF n = 1 THEN AddMsgs(s, "ai_player", forced)
             ELSE s

\* WerewolfGame.player_speak; responses is the number of non-empty replies of
\* the up to 3 responders
player_speak ==
    /\ IF game_state.current_phase \notin {"day_discussion", "day_voting"}
       THEN Commit(Cur, "player_speak", FALSE)
       ELSE MayAct /\ \E responses, forced \in {0, Min2(3, Cardinality(AliveAI(game_state)))} :
              Commit(check_phase_progression(
                         AddMsgs(AddMsg(Cur, "player"), "ai_player", responses),
                         forced),
                     "player_speak", TRUE)

\* WerewolfGame.start_voting (explored where it changes the phase); without a
\* judge_id the message violates NOT NULL after the phase was written
start_voting ==
    /\ game_state.current_phase # "day_voting"
    /\ IF ~Truthy(game_state.judge_id)
       THEN Commit([Cur EXCEPT !.gs.current_phase = "day_voting",
                               !.trace = Append(@, PhaseEntry("day_voting"))],
                   "start_voting", FALSE)
       ELSE Commit([AddMsg(Cur, "judge") EXCEPT
                       !.gs.current_phase = "day_voting",
                       !.trace = Append(@, PhaseEntry("day_voting"))],
                   "start_voting", TRUE)

\* the timer's call of WerewolfGame._auto_voting: with at most 2 players left
\* it checks for the end; else every living AI player posts a vote and the
\* call of _process_voting_results with two arguments raises
auto_voting ==
    /\ timers > 0
    /\ LET s == [Cur EXCEPT !.timers = @ - 1]
           alive == Cardinality(AliveAI(game_state))
                    + (IF game_state.player_alive # "false" THEN 1 ELSE 0)
       IN  IF alive <= 2
           THEN Commit(check_game_over(s), "auto_voting", TRUE)
           ELSE Commit(AddMsgs(s, "vote", Cardinality(AliveAI(game_state))),
                       "auto_voting", TRUE)

\* the votes _conduct_ai_voting collects that are explored, as
\* <<voter, target>> pairs: every living AI player votes for one target t, and
\* t for the human; t is the human, the first or the last living AI player
VoteProfiles(gs) ==
    LET alive == AliveAI(gs)
    IN  { {<<v, IF v = t THEN 1 ELSE t>> : v \in alive} :
            t \in (Picks(alive) \ {0}) \cup {1} }

\* one more outcome of _conduct_ai_voting that is explored: every living AI
\* player votes for the next living AI player, so that each has one vote
SplitVotes(gs) ==
    LET alive == AliveAI(gs)
        succ(v) == IF {w \in alive : w > v} # {}
                   THEN SetMin({w \in alive : w > v})
                   ELSE SetMin(alive)
    IN  {<<v, IF succ(v) = v THEN 1 ELSE succ(v)>> : v \in alive}

\* WerewolfGame._conduct_ai_voting
conduct_ai_voting(s, votes) ==
    [AddMsgs(s, "ai_player", Cardinality(votes)) EXCEPT !.gs.ai_votes = votes]

\* vote_counts of _process_voting_results
VoteCount(gs, c) ==
    (IF Truthy(gs.player_vote) /\ int(gs.player_vote) > 0 /\ int(gs.player_vote) = c
     THEN 1 ELSE 0)
    + Cardinality({p \in gs.ai_votes : p[2] = c})

\* the players with the most votes
VoteWinners(gs) ==
    LET voted == {c \in 1..(DefaultPlayerCount + 1) : VoteCount(gs, c) > 0}
    IN  {c \in voted : \A d \in voted : VoteCount(gs, d) <= VoteCount(gs, c)}

\* the elimination of _process_voting_results
mark_eliminated(s, eliminated_player) ==
    LET a == IF eliminated_player # 1
             THEN IF eliminated_player \in AINumbers
                  THEN [s EXCEPT !.gs.ai_players[eliminated_player].alive = FALSE]
                  ELSE s
             ELSE [s EXCEPT !.gs.player_alive = "false"]
        was_alive == IF eliminated_player = 1 THEN s.gs.player_alive # "false"
                     ELSE eliminated_player \in AliveAI(s.gs)
    IN  [a EXCEPT !.trace = Append(@, [ev |-> "eliminated",
                                       player |-> eliminated_player,
                                       was_alive |-> was_alive])]

\* the elimination with the judge's result message
eliminate(s, eliminated_player) ==
    AddMsg(mark_eliminated(s, eliminated_player), "judge")

\* WerewolfGame._process_voting_results(session_id); without a judge_id the
\* result message violates NOT NULL and the handler ends in its except branch
process_voting_results(s, op, ok) ==
    IF VoteWinners(s.gs) = {} THEN Commit(s, op, ok)
    ELSE \E eliminated_player \in Picks(VoteWinners(s.gs)) :
           LET a == check_game_over(eliminate(s, eliminated_player))
           IN  IF ~Truthy(s.gs.judge_id)
               THEN Commit(mark_eliminated(s, eliminated_player), op, ok)
               ELSE IF a.over THEN Commit(a, op, ok)
               ELSE start_night_phase(
                        [a EXCEPT !.gs.day_count = str(DayCount(a.gs) + 1)], op, ok)

\* mutation: the vote is taken in any phase
player_vote_any_phase(target_number, reply) ==
    /\ VoteExplored(game_state)
    /\ MayAct
    /\ \E votes \in VoteProfiles(game_state) \cup {SplitVotes(game_state)} :
         process_voting_results(
             conduct_ai_voting(
                 AddMsg([Cur EXCEPT !.reply = reply,
                                    !.gs.player_vote = str(target_number)], "player"),
                 votes),
             "player_vote", TRUE)

\* WerewolfGame.player_vote
player_vote(target_number, reply) ==
    /\ VoteExplored(game_state)
    /\ IF game_state.current_phase # "day_voting"
       THEN Commit(Cur, "player_vote", FALSE)
       ELSE MayAct /\ \E votes \in VoteProfiles(game_state) \cup {SplitVotes(game_state)} :
              process_voting_results(
                  conduct_ai_voting(
                      AddMsg([Cur EXCEPT !.reply = reply,
                                         !.gs.player_vote = str(target_number)],
                             "player"),
                      votes),
                  "player_vote", TRUE)

\* the numbers the two requests vote for: nobody, and the first AI player
RaceVoteNumbers == {0, 2}

\* player_vote in a request thread, lines 1084-1087: the phase test
VoteCheck(r) ==
    /\ Truthy(game_state.judge_id)
    /\ vote_requests[r].pc = "idle"
    /\ IF game_state.current_phase # "day_voting"
       THEN Commit([Cur EXCEPT !.requests[r].pc = "rejected"], "player_vote", FALSE)
       ELSE Commit([Cur EXCEPT !.requests[r] =
                       [pc |-> "passed", day |-> DayCount(game_state)]],
                   "vote_check", TRUE)

\* player_vote in a request thread, lines 1089-1102: the vote is stored, the
\* AI players vote and the result is processed
VoteAct(r, target_number) ==
    /\ vote_requests[r].pc = "passed"
    /\ \E votes \in VoteProfiles(game_state) :
         process_voting_results(
             conduct_ai_voting(
                 AddMsg([Cur EXCEPT !.requests[r].pc = "done",
                                    !.gs.player_vote = str(target_number)],
                        "player"),
                 votes),
             "player_vote", TRUE)

\* start_voting as the client calls it: in the discussion of an explored day
RaceStartVoting ==
    /\ game_state.current_phase = "day_discussion"
    /\ DayCount(game_state) <= MaxDay
    /\ start_voting

\* one day's vote with two player_vote requests at once
RaceNext ==
    \/ \E roles_dealt \in Deals : create_new_game(roles_dealt, AdapterFailed)
    \/ RaceStartVoting
    \/ \E r \in Requests : VoteCheck(r)
    \/ \E r \in Requests, target_number \in RaceVoteNumbers :
           VoteAct(r, target_number)

\* a session the human talks in but never votes in, and never calls
\* start_voting for: the vote is left to the timer of _start_voting_phase
AutoVoteNext ==
    \/ \E roles_dealt \in Deals, reply \in JudgeReplies :
           create_new_game(roles_dealt, reply)
    \/ player_speak
    \/ auto_voting

\* the numbers a reply to the kill prompt names that are explored: an AI
\* werewolf of every deal, a player the werewolves may kill, and the last
\* player, who is dead in the second night when the first night killed them
KillReplyNumbers == {2, 4, DefaultPlayerCount}

\* the adapter's replies that are explored for the kill prompt: a failure, a
\* text that is no number, and the numbers
KillReplies ==
    JudgeReplies \cup {[success |-> TRUE, content |-> str(n)] : n \in KillReplyNumbers}

\* two nights of a session whose adapter answers the kill prompt freely: the
\* night of create_new_game and the night after the first day's vote
KillNext ==
    \/ \E roles_dealt \in Deals, reply \in KillReplies :
           create_new_game(roles_dealt, reply)
    \/ RaceStartVoting
    \/ \E reply \in KillReplies : player_vote(0, reply)

WWNext ==
    \/ \E roles_dealt \in Deals, reply \in JudgeReplies :
           create_new_game(roles_dealt, reply)
    \/ player_speak
    \/ start_voting
    \/ auto_voting
    \/ \E target_number \in VoteNumbers, reply \in JudgeReplies :
           player_vote(target_number, reply)

(***************************************************************************)
(* The message log: table game_messages and the facades' readers           *)
(***************************************************************************)

\* rows of game_messages that are explored
MaxRows == 3

\* seconds of CURRENT_TIMESTAMP that are explored
MaxClock == 1

\* the limits a reader is called with
Limits == 0..2

\* the default limit of DatabaseManager.get_game_messages
DefaultLimit == 50

\* the phase tags messages are stored with
MessagePhases == {"", "day_1"}

MsgInit ==
    /\ msg_table = <<>>
    /\ msg_clock = 0
    /\ msg_result = [facade |-> "none", session_id |-> "s1", limit |-> 0,
                     rows |-> <<>>, appended |-> <<>>]

\* a second passes
Tick ==
    /\ msg_clock < MaxClock
    /\ msg_clock' = msg_clock + 1
    /\ UNCHANGED <<msg_table, msg_result>>
    /\ UNCHANGED exceptMsg

\* DatabaseManager.add_game_message: the row gets the next id and the
\* timestamp of the current second
add_game_message(session_id, phase) ==
    /\ Len(msg_table) < MaxRows
    /\ msg_table' = Append(msg_table, [session_id |-> session_id,
                                       phase |-> phase,
                                       timestamp |-> msg_clock])
    /\ UNCHANGED <<msg_clock, msg_result>>
    /\ UNCHANGED exceptMsg

\* the ids of the rows the WHERE clause selects
SelectedRows(table, session_id, phase) ==
    {i \in 1..Len(table) :
        /\ table[i].session_id = session_id
        /\ Truthy(phase) => table[i].phase = phase}

\* ORDER BY timestamp DESC: every order of the rows with no later timestamp
\* after an earlier one; rows of one second come in any order
OrderByTimestampDesc(table, S) ==
    {q \in [1..Cardinality(S) -> S] :
        /\ \A i, j \in 1..Cardinality(S) : i # j => q[i] # q[j]
        /\ \A i, j \in 1..Cardinality(S) :
              i < j => table[q[i]].timestamp >= table[q[j]].timestamp}

reversed(q) == [i \in 1..Len(q) |-> q[Len(q) + 1 - i]]

\* DatabaseManager.get_game_messages(session_id, phase, limit): the results
\* the query may give
get_game_messages(table, session_id, phase, limit) ==
    {reversed(SubSeq(q, 1, Min2(limit, Len(q)))) :
        q \in OrderByTimestampDesc(table, SelectedRows(table, session_id, phase))}

\* an integer bound to the phase parameter: 0 is false, any other number is
\* compared with the TEXT column as its text
PhaseOfNumber(n) == IF n = 0 THEN NoValue ELSE str(n)

\* the ids of a session's rows, in append order
SessionRows(table, session_id) ==
    SelectSeq([i \in 1..Len(table) |-> i],
              LAMBDA i : table[i].session_id = session_id)

\* a reader returns rows; appended is what the session held at the call
Read(facade, session_id, limit, rows) ==
    /\ msg_result' = [facade |-> facade, session_id |-> session_id,
                      limit |-> limit, rows |-> rows,
                      appended |-> SessionRows(msg_table, session_id)]
    /\ UNCHANGED <<msg_table, msg_clock>>
    /\ UNCHANGED exceptMsg

\* WerewolfGame.get_game_messages: limit is passed in the place of phase
werewolf_get_game_messages(session_id, limit) ==
    \E rows \in get_game_messages(msg_table, session_id, PhaseOfNumber(limit),
                                  DefaultLimit) :
        Read("werewolf", session_id, limit, rows)

\* DetectiveGame.get_game_messages
detective_get_game_messages(session_id, limit) ==
    \E rows \in get_game_messages(msg_table, session_id, NoValue, limit) :
        Read("detective", session_id, limit, rows)

\* ScriptHostGame.get_game_messages (the later definition of the class)
script_get_game_messages(session_id, limit) ==
    \E rows \in get_game_messages(msg_table, session_id, NoValue, limit) :
        Read("script_host", session_id, limit, rows)

AddMessage == \E session_id \in Sessions, phase \in MessagePhases :
                  add_game_message(session_id, phase)

WerewolfRead == \E session_id \in Sessions, limit \in Limits :
                    werewolf_get_game_messages(session_id, limit)

DetectiveRead == \E session_id \in Sessions, limit \in Limits :
                     detective_get_game_messages(session_id, limit)

ScriptRead == \E session_id \in Sessions, limit \in Limits :
                  script_get_game_messages(session_id, limit)

MsgNext ==
    \/ Tick
    \/ AddMessage
    \/ WerewolfRead
    \/ DetectiveRead
    \/ ScriptRead

(***************************************************************************)
(* GameAutomation: the registry active_games and the units of one session  *)
(***************************************************************************)

\* threads that are created for the session
MaxUnits == 2

Units == 1..MaxUnits

\* the request threads that call start_game_automation
Callers == {"r1", "r2"}

\* the phases of _run_script_host_game, in order
ScriptPhases == <<"introduction", "free_discussion", "investigation",
                  "final_reasoning", "revelation">>

\* a thread that was not created yet
NoUnit == [pc |-> "none", phase |-> 0, stop_seen |-> FALSE,
           entered |-> <<>>, messages |-> {}]

\* the threads that run
Live(us) == {u \in Units : us[u].pc \notin {"none", "done"}}

AutoInit ==
    /\ active_games = 0
    /\ units = [u \in Units |-> NoUnit]
    /\ callers = [c \in Callers |-> [pc |-> "idle", thread |-> 0]]
    /\ host_result = [type |-> "none", outcome |-> "none"]

\* start_game_automation, line 29: the registry is read
StartCheck(c) ==
    /\ callers[c].pc = "idle"
    /\ \E u \in Units : units[u].pc = "none"
    /\ callers' = [callers EXCEPT ![c].pc =
                      IF active_games # 0 THEN "idle" ELSE "create"]
    /\ UNCHANGED <<active_games, units>>
    /\ UNCHANGED host_result
    /\ UNCHANGED exceptAuto

\* start_game_automation, lines 33-38: the thread is created and started
StartThread(c) ==
    /\ callers[c].pc = "create"
    /\ \E u \in Units :
         /\ units[u].pc = "none"
         /\ \A v \in Units : units[v].pc = "none" => u <= v
         /\ units' = [units EXCEPT ![u].pc = "load"]
         /\ callers' = [callers EXCEPT ![c] = [pc |-> "register", thread |-> u]]
    /\ UNCHANGED active_games
    /\ UNCHANGED host_result
    /\ UNCHANGED exceptAuto

\* start_game_automation, line 39: the thread is entered in the registry
StartRegister(c) ==
    /\ callers[c].pc = "register"
    /\ active_games' = callers[c].thread
    /\ callers' = [callers EXCEPT ![c] = [pc |-> "idle", thread |-> 0]]
    /\ UNCHANGED units
    /\ UNCHANGED host_result
    /\ UNCHANGED exceptAuto

\* the threads that run have seen a stop_game_automation call
SeeStop(us) ==
    [u \in Units |-> IF u \in Live(us) THEN [us[u] EXCEPT !.stop_seen = TRUE]
                     ELSE us[u]]

\* GameAutomation.stop_game_automation, called by the facade
stop_game_automation ==
    /\ active_games' = 0
    /\ units' = SeeStop(units)
    /\ UNCHANGED callers
    /\ UNCHANGED host_result
    /\ UNCHANGED exceptAuto

\* _run_script_host_game, line 65: load_characters
UnitLoad(u) ==
    /\ units[u].pc = "load"
    /\ units' = [units EXCEPT ![u].pc = "check"]
    /\ UNCHANGED <<active_games, callers>>
    /\ UNCHANGED host_result
    /\ UNCHANGED exceptAuto

\* mutation: the loop goes from the introduction to the investigation
UnitCheck_skipping(u) ==
    /\ units[u].pc = "check"
    /\ units' = [units EXCEPT ![u] =
                    IF active_games = 0 THEN [@ EXCEPT !.pc = "finally"]
                    ELSE LET next == IF units[u].phase = 1 THEN 3
                                     ELSE units[u].phase + 1
                             phase == ScriptPhases[next]
                         IN  [@ EXCEPT !.phase = next,
                                       !.entered = Append(@, phase),
                                       !.pc = IF phase = "free_discussion"
                                              THEN "discussion" ELSE "body"]]
    /\ UNCHANGED <<active_games, callers>>
    /\ UNCHANGED host_result
    /\ UNCHANGED exceptAuto

\* _run_script_host_game, lines 70-74: the check at the top of the loop, and
\* the entry into the next phase
UnitCheck(u) ==
    /\ units[u].pc = "check"
    /\ units' = [units EXCEPT ![u] =
                    IF active_games = 0 THEN [@ EXCEPT !.pc = "finally"]
                    ELSE LET phase == ScriptPhases[units[u].phase + 1]
                         IN  [@ EXCEPT !.phase = @ + 1,
                                       !.entered = Append(@, phase),
                                       !.pc = IF phase = "free_discussion"
                                              THEN "discussion" ELSE "body"]]
    /\ UNCHANGED <<active_games, callers>>
    /\ UNCHANGED host_result
    /\ UNCHANGED exceptAuto

\* DatabaseManager.get_game_state(self, session_id): a call with another
\* number of arguments raises TypeError
get_game_state_accepts(args) == Len(args) = 1

\* _script_host_revelation: the truth is read with get_game_state(session_id,
\* 'truth') and the host's message appended; an exception ends the unit in
\* _run_game_loop's except branch
script_host_revelation(unit) ==
    IF get_game_state_accepts(<<"session_id", "truth">>)
    THEN [unit EXCEPT !.messages = @ \cup {"revelation"}, !.pc = "finally"]
    ELSE [unit EXCEPT !.pc = "finally"]

\* the body of a phase other than the discussion runs to its end: the host's
\* message and the sleep; the revelation ends the loop
UnitBody(u) ==
    /\ units[u].pc = "body"
    /\ LET phase == ScriptPhases[units[u].phase]
       IN  units' = [units EXCEPT ![u] =
                        IF phase = "revelation" THEN script_host_revelation(@)
                        ELSE [@ EXCEPT !.messages = @ \cup {phase},
                                       !.pc = "check"]]
    /\ UNCHANGED <<active_games, callers>>
    /\ UNCHANGED host_result
    /\ UNCHANGED exceptAuto

\* _script_host_discussion, line 132: the loop goes on while the time is not
\* over and the session is registered
UnitDiscussion(u) ==
    /\ units[u].pc = "discussion"
    /\ \E time_over \in BOOLEAN :
         units' = [units EXCEPT ![u].pc =
                      IF time_over \/ active_games = 0 THEN "check" ELSE "speech"]
    /\ UNCHANGED <<active_games, callers>>
    /\ UNCHANGED host_result
    /\ UNCHANGED exceptAuto

\* _script_host_discussion, lines 134-151: one speech and the sleep after it
UnitSpeech(u) ==
    /\ units[u].pc = "speech"
    /\ units' = [units EXCEPT ![u].pc = "discussion"]
    /\ UNCHANGED <<active_games, callers>>
    /\ UNCHANGED host_result
    /\ UNCHANGED exceptAuto

\* _run_game_loop, lines 59-60: the thread ends with stop_game_automation
UnitFinally(u) ==
    /\ units[u].pc = "finally"
    /\ active_games' = 0
    /\ units' = [SeeStop(units) EXCEPT ![u].pc = "done"]
    /\ UNCHANGED callers
    /\ UNCHANGED host_result
    /\ UNCHANGED exceptAuto

\* the action types of handle_user_action
ActionTypes == {"investigate", "question_character", "analyze_clue",
                "make_accusation", "get_status", "other"}

\* how a handler of handle_user_action ends: the handlers that read the game
\* state with get_game_state(session_id, key) raise there; the question of a
\* character the session does not have, and an unknown type, are errors
ActionOutcomes(action_type) ==
    CASE action_type \in {"investigate", "make_accusation", "get_status"} ->
           IF get_game_state_accepts(<<"session_id", "key">>)
           THEN {"success"} ELSE {"raised"}
      [] action_type = "question_character" ->
           IF get_game_state_accepts(<<"session_id", "key">>)
           THEN {"error", "success"} ELSE {"error", "raised"}
      [] action_type = "analyze_clue" -> {"success"}
      [] OTHER -> {"error"}

\* ScriptHostGame.handle_user_action: _handle_accusation reaches its
\* stop_game_automation call only when it does not raise before
handle_user_action(action_type) ==
    \E outcome \in ActionOutcomes(action_type) :
        /\ host_result' = [type |-> action_type, outcome |-> outcome]
        /\ IF action_type = "make_accusation" /\ outcome = "success"
           THEN active_games' = 0 /\ units' = SeeStop(units)
           ELSE UNCHANGED <<active_games, units>>
        /\ UNCHANGED callers
        /\ UNCHANGED exceptAuto

AutoNext ==
    \/ \E c \in Callers : StartCheck(c)
    \/ \E c \in Callers : StartThread(c)
    \/ \E c \in Callers : StartRegister(c)
    \/ stop_game_automation
    \/ \E u \in Units : UnitLoad(u)
    \/ \E u \in Units : UnitCheck(u)
    \/ \E u \in Units : UnitBody(u)
    \/ \E u \in Units : UnitDiscussion(u)
    \/ \E u \in Units : UnitSpeech(u)
    \/ \E u \in Units : UnitFinally(u)
    \/ \E action_type \in ActionTypes : handle_user_action(action_type)

(***************************************************************************)
(* Specifications                                                          *)
(***************************************************************************)

Init == StoreInit /\ RolesInit /\ GenInit /\ DetInit /\ WWInit /\ MsgInit /\ AutoInit

SpecStore == Init /\ [][StoreNext]_vars

SpecRoles == Init /\ [][RolesNext]_vars

SpecGen == Init /\ [][GenNext]_vars

SpecDetective == Init /\ [][DetNext]_vars

SpecScore == Init /\ [][ScoreNext]_vars

SpecWerewolf == Init /\ [][WWNext]_vars

SpecVoteRace == Init /\ [][RaceNext]_vars

SpecKill == Init /\ [][KillNext]_vars

\* threading.Timer(3.0, self._auto_voting) runs its callback once the three
\* seconds are over: a pending timer does not wait for ever
SpecAutoVote == Init /\ [][AutoVoteNext]_vars /\ WF_vars(auto_voting)

SpecMessages == Init /\ [][MsgNext]_vars

SpecAutomation == Init /\ [][AutoNext]_vars

(***************************************************************************)
(* Properties                                                              *)
(***************************************************************************)

\* the memory log a character holds after n appends: the last MemCap of them
ExpectedLog(n) ==
    IF n <= MemCap THEN [i \in 1..n |-> MemoryItem(i)]
    ELSE [i \in 1..MemCap |-> MemoryItem(n - MemCap + i)]

\* C1: a character's memory log never holds more than 50 entries, and after
\* N >= 50 appends it holds exactly the 50 most recently appended entries in
\* their original order (in the registry and in the persisted row).
C1_MemoryCap ==
    \A s \in Sessions, c \in CharIds :
        /\ characters[s][c] # NoChar =>
              /\ Len(characters[s][c].memory) <= MemCap
              /\ appended[s][c] >= MemCap =>
                    /\ Len(characters[s][c].memory) = MemCap
                    /\ characters[s][c].memory = ExpectedLog(appended[s][c])
        /\ db_characters[s][c] # NoChar =>
              /\ Len(json_loads(db_characters[s][c].memory)) <= MemCap
              /\ appended[s][c] >= MemCap =>
                    json_loads(db_characters[s][c].memory) = ExpectedLog(appended[s][c])

\* C1 witness: after 60 appends the log holds 50 entries, the first of them
\* the 11th appended event
C1_Witness ==
    \E s \in Sessions, c \in CharIds :
        /\ characters[s][c] # NoChar
        /\ appended[s][c] = 60
        /\ Len(characters[s][c].memory) = 50
        /\ characters[s][c].memory[1] = MemoryItem(11)

\* C10: the list _generate_roles returns for n in {6, 8, 10, 12} has n entries,
\* holds each role as often as role_configs[n] says, holds a werewolf, a
\* villager and a seer, and for n = 8 exactly 2 werewolves among 8 roles.
C10_RoleDistribution ==
    (roles_n # 0 /\ shuffle_i = 0) =>
        /\ Len(roles) = roles_n
        /\ \A k \in 1..Len(RoleNames) :
              CountOf(roles, RoleNames[k]) = role_configs(roles_n)[RoleNames[k]]
        /\ CountOf(roles, "werewolf") >= 1
        /\ CountOf(roles, "villager") >= 1
        /\ CountOf(roles, "seer") >= 1
        /\ roles_n = 8 =>
              /\ CountOf(roles, "werewolf") = 2
              /\ CountOf(roles, "werewolf") + CountOf(roles, "villager")
                    + CountOf(roles, "seer") + CountOf(roles, "witch")
                    + CountOf(roles, "hunter") = 8

\* C10 witness: an 8-player list was returned in an order other than the one built
C10_Witness ==
    /\ roles_n = 8
    /\ shuffle_i = 0
    /\ roles # roles_list(8)
    /\ roles[1] = "witch"

\* a scenario is complete: a title, a suspect, a clue, and a culprit who is
\* one of its own suspects
ScenarioComplete(sc) ==
    /\ sc.title # ""
    /\ Len(sc.suspects) >= 1
    /\ sc.clues >= 1
    /\ \E i \in 1..Len(sc.suspects) : sc.suspects[i] = sc.culprit

\* the reply text holds no JSON object at all
Unparseable(s) == ~\E i \in 1..Len(s) : s[i] = "lb" /\ i < Len(s) /\ s[i + 1] = "rb"

C4_ConclusionCorrect ==
    (det_result.op = "submit_conclusion" /\ det_result.success)
    => /\ det_result.actual_killer = det_case.culprit
       /\ (det_result.accused = det_case.culprit => det_result.correct)
       /\ (/\ det_result.accused \in SuspectNames(det_case)
           /\ det_result.accused # det_case.culprit) => ~det_result.correct

\* C4 failing case reached: the canned case, its culprit accused, judged wrong
C4_Witness ==
    /\ det_result.op = "submit_conclusion"
    /\ det_case = get_fallback_case
    /\ det_result.accused = "MrsLi"
    /\ ~det_result.correct
    /\ det_result.actual_killer = ""

\* the entries of the last handler's trace of one kind
TraceEntries(ev) ==
    {i \in 1..Len(ww_result.trace) : ww_result.trace[i].ev = ev}

\* C2: when the kill target equals the poison target and no antidote was used,
\* the deaths list of _process_night_results holds that player exactly once
\* and exactly one player goes from alive to dead.
C2_SingleDeathOnDoubleKill ==
    \A i \in TraceEntries("night") :
        LET e == ww_result.trace[i]
        IN  (/\ Truthy(e.kill_target)
             /\ e.poison_target = e.kill_target
             /\ e.save_target # e.kill_target)
            => /\ e.deaths = <<int(e.kill_target)>>
               /\ Cardinality(e.alive_before \ e.alive_after) = 1

\* C2 failing case reached: kill and poison on one player, the player listed twice
C2_Witness ==
    \E i \in TraceEntries("night") :
        LET e == ww_result.trace[i]
        IN  /\ Truthy(e.kill_target)
            /\ e.poison_target = e.kill_target
            /\ e.deaths = <<int(e.kill_target), int(e.kill_target)>>
            /\ Cardinality(e.alive_before \ e.alive_after) = 1

\* C3: when the antidote target equals the kill target and no poison was used,
\* the target is still alive after _process_night_results and the deaths list
\* is empty.
C3_AntidoteCancelsKill ==
    \A i \in TraceEntries("night") :
        LET e == ww_result.trace[i]
        IN  (/\ Truthy(e.kill_target)
             /\ e.save_target = e.kill_target
             /\ ~Truthy(e.poison_target))
            => /\ e.deaths = <<>>
               /\ int(e.kill_target) \in e.alive_after
               /\ e.alive_after = e.alive_before

\* C3 witness: a night in which the witch saved the kill target
C3_Witness ==
    \E i \in TraceEntries("night") :
        LET e == ww_result.trace[i]
        IN  /\ Truthy(e.kill_target)
            /\ e.save_target = e.kill_target
            /\ ~Truthy(e.poison_target)
            /\ int(e.kill_target) \in e.alive_before
            /\ e.deaths = <<>>

\* C6: _check_game_over ends the session for the villagers exactly when no
\* werewolf lives, for the werewolves exactly when at least one lives and they
\* are at least as many as the others, and else changes neither phase nor
\* winner; it runs right after every night resolution and every elimination.
C6_CheckGameOver ==
    /\ \A i \in TraceEntries("check") :
         LET e == ww_result.trace[i]
         IN  /\ (e.reported = "villagers") <=> (e.werewolves = 0)
             /\ (e.reported = "werewolves")
                  <=> (e.werewolves >= 1 /\ e.werewolves >= e.good_guys)
             /\ e.reported \in {"villagers", "werewolves", NoValue}
             /\ e.reported # NoValue
                  => (e.phase_after = "game_over" /\ e.winner_after = e.reported)
             /\ e.reported = NoValue
                  => (e.phase_after = e.phase_before /\ e.winner_after = e.winner_before)
    /\ Truthy(game_state.judge_id)
         => \A i \in TraceEntries("night") \cup TraceEntries("eliminated") :
              /\ i < Len(ww_result.trace)
              /\ ww_result.trace[i + 1].ev = "check"

\* C6 witness: an elimination left one werewolf against one other player, and
\* the check that followed ended the session for the werewolves
C6_Witness ==
    \E i \in TraceEntries("eliminated") :
        /\ i < Len(ww_result.trace)
        /\ ww_result.trace[i + 1].ev = "check"
        /\ ww_result.trace[i + 1].werewolves = ww_result.trace[i + 1].good_guys
        /\ ww_result.trace[i + 1].reported = "werewolves"
        /\ game_state.current_phase = "game_over"

\* C7: once no werewolf lives none ever lives again and every win-check
\* reports the villagers; once a win-check has recorded the werewolves as
\* winner (they were at least as many as the others), every later win-check
\* of the session reports the werewolves again.
C7_WinMonotone ==
    /\ [][(game_state.current_phase # NoValue /\ AliveWerewolves(game_state) = 0)
            => AliveWerewolves(game_state') = 0]_vars
    /\ [](\A i \in TraceEntries("check") :
            LET e == ww_result.trace[i]
            IN  /\ e.werewolves = 0
                  => (e.reported = "villagers" /\ e.winner_after = "villagers")
                /\ e.winner_before = "werewolves"
                  => (e.reported = "werewolves" /\ e.winner_after = "werewolves"))

\* C7 failing case reached: after a werewolf victory a later win-check, run on
\* the counts a further elimination left, reports no werewolf victory
C7_Witness ==
    \E i \in TraceEntries("check") :
        LET e == ww_result.trace[i]
        IN  /\ e.winner_before = "werewolves"
            /\ e.werewolves < e.good_guys
            /\ e.reported # "werewolves"

\* C8: once current_phase is game_over, player_speak, start_voting and
\* player_vote change neither the phase, the winner, an alive flag nor
\* day_count.
C8_GameOverAbsorbing ==
    [][(/\ game_state.current_phase = "game_over"
        /\ ww_result'.op \in {"player_speak", "start_voting", "player_vote"})
       => /\ game_state'.current_phase = "game_over"
          /\ game_state'.winner = game_state.winner
          /\ game_state'.ai_players = game_state.ai_players
          /\ game_state'.player_alive = game_state.player_alive
          /\ game_state'.day_count = game_state.day_count]_vars

\* C8 failing case reached: a session with a recorded winner is voting again
C8_Witness ==
    /\ Truthy(game_state.winner)
    /\ ww_result.op = "start_voting"
    /\ game_state.current_phase = "day_voting"

\* C9: player_vote outside day_voting returns failure and changes nothing:
\* no message, no vote recorded, nobody eliminated, phase and day_count as
\* before, nothing left pending.
C9_VoteRejected ==
    [][(ww_result'.op = "player_vote" /\ game_state.current_phase # "day_voting")
       => /\ ~ww_result'.ok
          /\ game_state' = game_state
          /\ game_messages' = game_messages
          /\ timers' = timers]_vars

\* C9 witness: a vote was rejected during the discussion
C9_Witness ==
    /\ ww_result.op = "player_vote"
    /\ ~ww_result.ok
    /\ game_state.current_phase = "day_discussion"
    /\ game_state.player_vote = NoValue

\* the last k entries of q
LastOf(q, k) == SubSeq(q, Len(q) - Min2(k, Len(q)) + 1, Len(q))

\* C11: a facade's get_game_messages(session_id, limit) returns the
\* min(limit, n) most recently appended messages of the session, in append
\* order.
C11_RecentMessages ==
    msg_result.facade # "none"
        => msg_result.rows = LastOf(msg_result.appended, msg_result.limit)

\* C11 failing case reached: the werewolf reader, asked for the last message
\* of a session that has messages, returns none
C11_Witness ==
    /\ msg_result.facade = "werewolf"
    /\ msg_result.limit = 1
    /\ Len(msg_result.appended) >= 1
    /\ msg_result.rows = <<>>

\* C12: a thread that ran when stop_game_automation was called enters no
\* further phase and begins no further speech: it only completes what it is
\* doing and ends at its next check of the registry, whatever is called
\* afterwards.
C12_CooperativeStop ==
    [][\A u \in Units :
          units[u].stop_seen
              => /\ units'[u].phase = units[u].phase
                 /\ (units'[u].pc = "speech" => units[u].pc = "speech")]_vars

\* C12 failing case reached: a thread that saw a stop is in a phase it
\* entered after the stop, and a later thread runs as well
C12_Witness ==
    \E u \in Units :
        /\ units[u].stop_seen
        /\ units[u].pc = "body"
        /\ ScriptPhases[units[u].phase] = "investigation"
        /\ \E v \in Units : v > u /\ units[v].pc = "load"

\* C13: at every moment at most one thread of the session runs.
C13_OneUnitPerSession == Cardinality(Live(units)) <= 1

\* C13 failing case reached: start, stop and start again while the first
\* thread is in its discussion; both threads run
C13_Witness ==
    /\ units[1].pc = "speech"
    /\ units[1].stop_seen
    /\ units[2].pc \in {"check", "body"}
    /\ active_games = 2


\* C14: when the adapter call for a werewolf judge announcement (opening,
\* night, day) fails, the message the judge appends is the hard-coded
\* template of that announcement, never an empty text.
C14_TemplateOnFailure ==
    \A i \in TraceEntries("announce") :
        LET e == ww_result.trace[i]
        IN  ~e.success => e.content = Template(e.kind)

\* a failed adapter call whose announcement was appended as the empty text
C14_Witness ==
    \E i \in TraceEntries("announce") :
        LET e == ww_result.trace[i]
        IN  e.kind = "night" /\ ~e.success /\ e.content = ""

\* C15: text generation never blocks the night: whatever the adapter returns
\* for the announcement, the werewolves, the seer and the witch, a handler
\* that started a night leaves current_phase at day_discussion or game_over.
C15_NightEndsInDay ==
    (\E i \in TraceEntries("phase") : ww_result.trace[i].phase = "night")
        => game_state.current_phase \in {"day_discussion", "game_over"}

\* a night whose announcements came from a failed adapter call has led to the day
C15_Witness ==
    /\ \E i \in TraceEntries("phase") : ww_result.trace[i].phase = "night"
    /\ \E i \in TraceEntries("announce") :
         ww_result.trace[i].kind = "night" /\ ~ww_result.trace[i].success
    /\ \E i \in TraceEntries("witch") : TRUE
    /\ game_state.current_phase = "day_discussion"

\* C20: the night's sub-actions run in the order werewolf kill, seer check,
\* witch, all before the night's results; the kill target the witch reads is
\* the one stored in this night, and empty when this night stored none.
C20_NightOrder ==
    LET trace == ww_result.trace
        kills == TraceEntries("kill")
        checks == TraceEntries("seer")
        witches == TraceEntries("witch")
    IN  /\ \A k \in kills, c \in checks : k < c
        /\ \A c \in checks, w \in witches : c < w
        /\ \A k \in kills, w \in witches :
             k < w /\ trace[w].kill_target = trace[k].target
        /\ \A w \in witches : kills = {} => ~Truthy(trace[w].kill_target)
        /\ \A n \in TraceEntries("night"), i \in kills \cup checks \cup witches : i < n

\* the second night of a session: kill, check and witch in this order, the
\* witch reading this night's target
C20_Witness ==
    /\ ww_result.op = "player_vote"
    /\ \E k \in TraceEntries("kill"), c \in TraceEntries("seer"),
          w \in TraceEntries("witch") :
         /\ k < c /\ c < w
         /\ ww_result.trace[w].kill_target = ww_result.trace[k].target

\* C18: whenever start_voting, player_vote or player_speak reports failure,
\* also for a session id that does not exist, the session's game-state bag
\* and message log are exactly as before the call.
C18_FailureChangesNothing ==
    [][(/\ ww_result'.op \in {"start_voting", "player_vote", "player_speak"}
        /\ ~ww_result'.ok)
       => (game_state' = game_state /\ game_messages' = game_messages)]_vars

\* start_voting has reported failure for a session nobody created, and the
\* session has a current_phase row
C18_Witness ==
    /\ ww_result.op = "start_voting"
    /\ ~ww_result.ok
    /\ ~Truthy(game_state.judge_id)
    /\ game_state.current_phase = "day_voting"

\* C16: store operations on ids nobody created are silent: get_character
\* returns the not-found value, and update_character_memory and
\* kill_character leave the registry and the persisted rows as they were.
C16_UnknownIdsSilent ==
    /\ [](/\ store_result.op = "get_character"
          /\ ~store_result.persisted
          => store_result.value = NoChar)
    /\ [][(/\ store_result'.op \in {"update_character_memory", "kill_character"}
           /\ ~store_result'.persisted)
          => (characters' = characters /\ db_characters' = db_characters)]_vars

\* kill_character was called for a session the store has never seen, while
\* another session has a registered character
C16_Witness ==
    /\ store_result.op = "kill_character"
    /\ store_result.session_id = "s2"
    /\ ~store_result.persisted
    /\ characters["s1"]["c1"] # NoChar

\* C17: memory is persisted at once and survives a restart: the row holds the
\* registry's log after every update; a character that has a row is found by
\* get_character also after the registry was lost; and an
\* update_character_memory on it extends the persisted log by its event.
C17_MemorySurvivesRestart ==
    /\ \A s \in Sessions, c \in CharIds :
         characters[s][c] # NoChar =>
             /\ Persisted(s, c)
             /\ PersistedLog(s, c) = characters[s][c].memory
    /\ (store_result.op = "get_character" /\ store_result.persisted)
         => store_result.value # NoChar
    /\ (store_result.op = "update_character_memory" /\ store_result.persisted)
         => PersistedLog(store_result.session_id, store_result.character_id)
              = add_memory(store_result.log_before, MemoryItem(store_result.item))

\* after a restart an update for a character with a persisted log of two
\* entries found nothing, and the log has not grown
C17_Witness ==
    /\ store_result.op = "update_character_memory"
    /\ store_result.persisted
    /\ store_result.value = NoChar
    /\ Len(store_result.log_before) = 2
    /\ PersistedLog(store_result.session_id, store_result.character_id)
         = store_result.log_before

\* C19: the score of submit_conclusion is 100 for a correct accusation (else
\* 0) plus max(0, 50 - 5 * interrogations) plus 10 per discovered clue; the
\* efficiency bonus is never negative, never grows with the interrogation
\* count and is 0 from 10 interrogations on, so the score is never negative.
C19_Score ==
    /\ \A n \in 0..MaxInterrogations :
         /\ efficiency_bonus(n) >= 0
         /\ efficiency_bonus(n + 1) <= efficiency_bonus(n)
         /\ n >= 10 => efficiency_bonus(n) = 0
    /\ (det_result.op = "submit_conclusion" /\ det_result.success) =>
         LET floor == IF det_interrogations >= 10 THEN 0
                      ELSE 50 - 5 * det_interrogations
         IN  /\ det_result.score = (IF det_result.correct THEN 100 ELSE 0)
                                     + floor + 10 * det_discovered
             /\ det_result.score >= 0
             /\ det_scores.last.score = det_result.score

\* a wrong accusation after 11 interrogations and one discovered clue scores 10
C19_Witness ==
    /\ det_result.op = "submit_conclusion"
    /\ det_result.success
    /\ ~det_result.correct
    /\ det_interrogations = 11
    /\ det_discovered = 1
    /\ det_result.score = 10

\* the entries of one kind in a trace
EntriesOf(trace, ev) == {i \in 1..Len(trace) : trace[i].ev = ev}

\* C21: each of the witch's potions takes effect at most once per game: once
\* its used flag is set the flag stays set, and no later night has a save
\* target (resp. a poison target); the night goes on to its results.
C21_PotionsSingleUse ==
    /\ [][/\ game_state.witch_antidote_used => game_state'.witch_antidote_used
          /\ game_state.witch_poison_used => game_state'.witch_poison_used]_vars
    /\ [][game_messages' # game_messages
          => \A i \in EntriesOf(ww_result'.trace, "night") :
               LET e == ww_result'.trace[i]
               IN  /\ game_state.witch_antidote_used => ~Truthy(e.save_target)
                   /\ game_state.witch_poison_used => ~Truthy(e.poison_target)]_vars
    /\ [](\A i \in TraceEntries("witch") :
             \E j \in TraceEntries("night") : i < j)

\* the second night: the witch, her antidote used in the first, finds a kill
\* target; the night resolves without a save target and the target dies
C21_Witness ==
    \E i \in TraceEntries("witch"), j \in TraceEntries("night") :
        /\ ww_result.trace[i].antidote_used
        /\ Truthy(ww_result.trace[i].kill_target)
        /\ ~Truthy(ww_result.trace[j].save_target)
        /\ ww_result.trace[j].deaths = <<int(ww_result.trace[i].kill_target)>>

C23_RevelationReached ==
    /\ [](\A u \in Units :
            (units[u].pc = "finally" /\ ~units[u].stop_seen)
                => /\ units[u].entered = ScriptPhases
                   /\ "revelation" \in units[u].messages)
    /\ [][\A u \in Units :
            (units[u].pc = "finally" /\ units'[u].pc = "done")
                => active_games' = 0]_vars

\* a thread nobody stopped went through all five phases and is at its end
\* without the revelation message
C23_Witness ==
    \E u \in Units :
        /\ units[u].pc = "finally"
        /\ ~units[u].stop_seen
        /\ units[u].entered = ScriptPhases
        /\ units[u].messages = {"introduction", "investigation", "final_reasoning"}

\* C29: the session is in the registry only while a thread of it runs: the
\* registered thread has not ended.
C29_RegisteredMeansLive ==
    active_games # 0 => units[active_games].pc # "done"

\* the thread found the session unregistered at its first check and ended
\* before its starter entered it in the registry; no call is in progress
C29_Witness ==
    /\ active_games = 1
    /\ units[1].pc = "done"
    /\ units[1].entered = <<>>
    /\ units[2].pc = "none"
    /\ \A c \in Callers : callers[c].pc = "idle"

\* C24: of two player_vote requests that both passed the phase test of the
\* same day, the one that acts second behaves as a rejected vote: it
\* eliminates nobody and leaves day_count as it is, so that the day has one
\* elimination and day_count advances by one.
C24_OneLogicalWriter ==
    [][\A r \in Requests :
          (/\ vote_requests[r].pc = "passed"
           /\ vote_requests'[r].pc = "done"
           /\ \E q \in Requests \ {r} :
                /\ vote_requests[q].pc = "done"
                /\ vote_requests[q].day = vote_requests[r].day)
          => /\ EntriesOf(ww_result'.trace, "eliminated") = {}
             /\ game_state'.day_count = game_state.day_count]_vars

\* both requests passed the test on day 1 and acted: the second eliminated a
\* player as well, and day_count is 3
C24_Witness ==
    /\ \A r \in Requests : vote_requests[r] = [pc |-> "done", day |-> 1]
    /\ TraceEntries("eliminated") # {}
    /\ game_state.day_count = "3"

\* C25: a case is closed by its conclusion: the handler that follows a
\* successful submit_conclusion, if it is submit_conclusion,
\* interrogate_suspect or analyze_evidence, is rejected and changes neither
\* the messages, the counters, the evidence nor the scores.
C25_ConclusionCloses ==
    [][(/\ det_result.op = "submit_conclusion"
        /\ det_result.success
        /\ det_result'.op \in {"submit_conclusion", "interrogate_suspect",
                               "analyze_evidence"})
       => /\ ~det_result'.success
          /\ UNCHANGED <<det_messages, det_interrogations, det_evidence,
                         det_discovered, det_scores>>]_vars

\* a second conclusion directly after the first succeeded as well: the
\* session has two scores
C25_Witness ==
    /\ det_result.op = "submit_conclusion"
    /\ det_result.success
    /\ det_scores.rows = 2
    /\ det_messages = 5

\* C26: an accepted player_vote of a created session is a vote among the
\* living: the human who votes is alive, every counted vote (the human's when
\* it is above 0, and each AI player's) names a player alive when the vote
\* began, and the player it eliminates was alive then, so that one living
\* player fewer is left by the elimination.
C26_VotesAmongLiving ==
    [][(Truthy(game_state.judge_id) /\ ww_result'.op = "player_vote" /\ ww_result'.ok)
       => LET living(n) == IF n = 1 THEN game_state.player_alive # "false"
                           ELSE n \in AliveAI(game_state)
              v == int(game_state'.player_vote)
          IN  /\ living(1)
              /\ v > 0 => living(v)
              /\ \A p \in game_state'.ai_votes : living(p[1]) /\ living(p[2])
              /\ \A i \in EntriesOf(ww_result'.trace, "eliminated") :
                     ww_result'.trace[i].was_alive]_vars

\* the human voted for number 9, which no player has, the AI players' votes
\* were split, and number 9 was drawn from the tie and declared eliminated
C26_Witness ==
    /\ ww_result.op = "player_vote"
    /\ ww_result.ok
    /\ game_state.player_vote = str(DefaultPlayerCount + 1)
    /\ \E i \in TraceEntries("eliminated") :
         /\ ww_result.trace[i].player = DefaultPlayerCount + 1
         /\ ~ww_result.trace[i].was_alive
    /\ game_state.day_count = "2"

\* C27: a session that the discussion threshold has moved to day_voting
\* leaves day_voting again through the scheduled automatic vote alone.
C27_AutoVoteLeavesVoting ==
    (game_state.current_phase = "day_voting")
        ~> (game_state.current_phase # "day_voting")

\* the timer's callback has run with more than 2 players alive: the AI
\* players posted their votes, nobody was eliminated, no timer is pending and
\* the session is in day_voting
C27_Witness ==
    /\ ww_result.op = "auto_voting"
    /\ TraceEntries("eliminated") = {}
    /\ Cardinality(AliveAI(game_state)) > 2
    /\ \E i \in 1..Len(game_messages) : game_messages[i] = "vote"
    /\ timers = 0
    /\ game_state.current_phase = "day_voting"

\* C28: the alive flag is persisted: a character that kill_character has
\* marked dead is dead after load_characters has rebuilt the registry from
\* the rows, and a character that is alive (never killed, or revived) is
\* alive after it.
C28_AliveFlagRoundTrip ==
    (store_result.op = "load_characters")
    => \A c \in CharIds :
         LET s == store_result.session_id
         IN  (characters[s][c] # NoChar /\ Persisted(s, c))
             => (characters[s][c].is_alive <=> c \notin store_result.dead_before)

\* c1 of s1 was killed, which its memory records, and load_characters has
\* made it alive
C28_Witness ==
    /\ store_result.op = "load_characters"
    /\ store_result.session_id = "s1"
    /\ "c1" \in store_result.dead_before
    /\ characters["s1"]["c1"] # NoChar
    /\ characters["s1"]["c1"].is_alive
    /\ Len(characters["s1"]["c1"].memory) = 1

\* C30: the kill target the werewolf step stores is an AI player who is alive
\* at nightfall and no werewolf, whatever the reply to the kill prompt is;
\* when no living AI player but werewolves is left the step stores nothing.
\* The same holds of _werewolf_kill_action for every number a reply may
\* parse to in the session as it is.
C30_KillTargetValid ==
    LET trace == ww_result.trace
        nights == TraceEntries("night")
        targets(alive) == alive \ AIWithRole(game_state, alive, "werewolf")
    IN  /\ \A k \in TraceEntries("kill"), n \in nights :
             int(trace[k].target) \in targets(trace[n].alive_before)
        /\ \A n \in nights :
             targets(trace[n].alive_before) = {}
                 => TraceEntries("kill") = {} /\ ~Truthy(trace[n].kill_target)
        /\ \A target_number \in -1..(DefaultPlayerCount + 1),
              pick \in Picks(KillTargets(game_state)) :
             LET kill_target == werewolf_kill_action(game_state, AliveAI(game_state),
                                                     target_number, pick)
             IN  IF KillTargets(game_state) = {} THEN kill_target = 0
                 ELSE kill_target \in KillTargets(game_state)

\* in the night after the vote the reply named player 8, whom the first night
\* had killed, and the step stored a living player who is no werewolf
C30_Witness ==
    /\ ww_result.op = "player_vote"
    /\ \E k \in TraceEntries("kill"), n \in TraceEntries("night") :
         /\ ww_result.trace[k].reply = str(DefaultPlayerCount)
         /\ DefaultPlayerCount \notin ww_result.trace[n].alive_before
         /\ int(ww_result.trace[k].target) \in ww_result.trace[n].alive_before
         /\ game_state.ai_players[int(ww_result.trace[k].target)].role # "werewolf"
====
